---- MODULE Spec2Model ----
(***************************************************************************)
(* Per-position mean of PHRED scores, computed four ways:                  *)
(*   Assignment1  process pool            (chunks / pool.map / zip fold)   *)
(*   Assignment2  queue broker            (runserver / peon)               *)
(*   Assignment3  chunk mode and combine mode                              *)
(*   Assignment4  MPI scatter / gather    (byte ranges, rank-0 merge)      *)
(* Each program is a state machine of its own specification; the variables *)
(* of the programs that do not run stay at their idle values.              *)
(*                                                                         *)
(* A character is its ordinal (ord), a record a sequence of ordinals, a    *)
(* Python list a sequence (Python index i is TLA+ index i + 1), a float    *)
(* quotient a / b the reduced fraction <<p, q>>.                           *)
(***************************************************************************)
EXTENDS Integers, Sequences, FiniteSets

\* ------------------------------------------------------------- bounds
\* records per input file of the pool programs
MaxRecs == 2
\* characters per record
MaxLen == 3
\* pool size given with -n (Assignment1)
MaxCores == 2
\* length of the list handed to chunks, and the --chunks value (Assignment2)
MaxItems == 5
MaxSize == 5

\* ------------------------------------------------------- characters
\* '!' (score 0) and 'I' (score 40)
Chars == {33, 73}
\* "\n"
NL == 10

\* ----------------------------------------------------------- helpers
Max(a, b) == IF a >= b THEN a ELSE b
Min(a, b) == IF a <= b THEN a ELSE b

\* all sequences over S of length lo..hi
SeqsOf(S, lo, hi) == UNION {[1..k -> S] : k \in lo..hi}

RECURSIVE GCD(_, _)
GCD(a, b) == IF b = 0 THEN a ELSE GCD(b, a % b)

\* the outcome of an expression that may raise: its value, or the exception
Ok(v) == [raised |-> "", val |-> v]
Raise(e) == [raised |-> e, val |-> <<>>]

\* Python's a / b on ints a >= 0, b > 0: the quotient as a reduced fraction
TrueDiv(a, b) == LET g == GCD(a, b) IN <<a \div g, b \div g>>

\* Python's sum() over a sequence of ints
RECURSIVE sum(_)
sum(s) == IF s = <<>> THEN 0 ELSE s[1] + sum(Tail(s))

\* ord(checker) - 33
Score(c) == c - 33

\* ------------------------------------------------- chunks (A1, A2, A3)
\* start = int(i * len(number) / mysize); end = int((i + 1) * len(number) / mysize)
ChunkStart(i, len, mysize) == (i * len) \div mysize
ChunkEnd_DropRemainder(i, len, mysize) == ((i * len) \div mysize) + (len \div mysize)
ChunkEnd(i, len, mysize) == ((i + 1) * len) \div mysize

\* for i in range(mysize): mychunks.append(number[start:end])
chunks_RemainderToLast(number, mysize) ==
    [k \in 1..mysize |->
        SubSeq(number, (k - 1) * (Len(number) \div mysize) + 1,
                       IF k = mysize THEN Len(number) ELSE k * (Len(number) \div mysize))]
chunks(number, mysize) ==
    [k \in 1..mysize |->
        SubSeq(number, ChunkStart(k - 1, Len(number), mysize) + 1,
                       ChunkEnd(k - 1, Len(number), mysize))]

\* ---------------------------------------- calculate_quals (A1, A2, A3)
\* for item, checker in enumerate(qual): results[item] += score, or
\* results.append(score) on IndexError
RECURSIVE QualsOfRecord(_, _, _)
QualsOfRecord(results, qual, item) ==
    IF item > Len(qual) THEN results
    ELSE QualsOfRecord(
            IF item <= Len(results)
            THEN [results EXCEPT ![item] = @ + Score(qual[item])]
            ELSE Append(results, Score(qual[item])),
            qual, item + 1)

RECURSIVE QualsFrom(_, _)
QualsFrom(results, quality) ==
    IF quality = <<>> THEN results
    ELSE QualsFrom(QualsOfRecord(results, quality[1], 1), Tail(quality))

calculate_quals(quality) == QualsFrom(<<>>, quality)

\* ----------------------------------------------- zip(*lists) and fold
\* zip stops at the shortest argument; zip() of nothing is empty
RECURSIVE MinLen(_)
MinLen(lists) ==
    IF Len(lists) = 1 THEN Len(lists[1])
    ELSE Min(Len(lists[1]), MinLen(Tail(lists)))

ZipLen(lists) == IF lists = <<>> THEN 0 ELSE MinLen(lists)

\* zip(*lists): one tuple per position, a tuple holding lists[k][i] for every k
zip(lists) == [i \in 1..ZipLen(lists) |-> [k \in 1..Len(lists) |-> lists[k][i]]]

\* [sum(i) / deler for i in zip(*lists)]; the first failing division raises
ZipAverage(lists, deler) ==
    LET z == zip(lists)
    IN IF z # <<>> /\ deler = 0 THEN Raise("ZeroDivisionError")
       ELSE Ok([i \in 1..Len(z) |-> TrueDiv(sum(z[i]), deler)])

\* generate_output: one row [i, score] per position, i from 0
generate_output(average_phredscores) ==
    [i \in 1..Len(average_phredscores) |-> <<i - 1, average_phredscores[i]>>]

\* ------------------------------------------------------------ inputs
\* read_fastq keeps only non-empty quality lines
Records == SeqsOf(Chars, 1, MaxLen)
RecordLists == SeqsOf(Records, 0, MaxRecs)
\* the lists the partitioner is exercised on
ItemLists == SeqsOf({<<33>>, <<73>>}, 0, MaxItems)

\* ------------------------------------------------------------- state
VARIABLES
    mode,             \* which program runs: "pool" (A1), "chunk" / "combine" (A3), "broker" (A2)
    pc,               \* position of __main__ / main() in its per-file loop body
    n,                \* args.n (A1)
    args_chunks,      \* args.chunks (A2)
    qualities,        \* read_fastq(file)
    qual_chunked,     \* chunks(qualities, ...)
    phredscores,      \* pool.map(calculate_quals, qual_chunked), or calculate_quals(qualities)
    phredscores_avg,  \* the averages handed to generate_output
    output,           \* rows written by generate_output
    \* Assignment2: the server process (runserver), its manager and the client's peons
    fn,               \* the reduction runserver is given
    num_processes,    \* runclient(num_processes)
    manager,          \* "none", "up" (started, serving the queues), "down" (shut down)
    shared_job_q,     \* job_q of make_server_manager, a FIFO
    shared_result_q,  \* result_q of make_server_manager, a FIFO
    server_pc,        \* position of runserver
    sent,             \* how many elements of data `for d in data` has put
    results,          \* runserver's list of collected result envelopes
    client_pc,        \* position of runclient / run_workers
    peon_pc,          \* position of each peon process
    peon_job,         \* the job each peon holds
    \* Assignment4: main() on nproc ranks
    fastq_file,       \* the bytes of the input file
    nfiles,           \* len(args.fastq_files); every file holds the same bytes
    nproc,            \* comm.Get_size()
    mpi_pc,           \* position of the run: rank 0's steps and the collectives
    mpi_chunks,       \* rank 0's chunks (the partition plan)
    chunk,            \* each rank's chunk, as scattered
    quality_scores,   \* each rank's read_fastq_chunk(*chunk)
    result,           \* each rank's result; <<>> until the rank has reduced
    all_results,      \* comm.gather(result, root=0) at rank 0
    mpi_results       \* rank 0's results: file -> <<sums, counts>>

mainVars == <<mode, pc, n, args_chunks, qualities, qual_chunked,
              phredscores, phredscores_avg, output>>

brokerVars == <<fn, num_processes, manager, shared_job_q, shared_result_q,
                server_pc, sent, results, client_pc, peon_pc, peon_job>>

mpiVars == <<fastq_file, nfiles, nproc, mpi_pc, mpi_chunks, chunk,
             quality_scores, result, all_results, mpi_results>>

vars == <<mainVars, brokerVars, mpiVars>>

\* the Assignment4 ranks when another program runs
MpiIdle ==
    /\ fastq_file = <<>>
    /\ nfiles = 0
    /\ nproc = 0
    /\ mpi_pc = "none"
    /\ mpi_chunks = <<>>
    /\ chunk = <<>>
    /\ quality_scores = <<>>
    /\ result = <<>>
    /\ all_results = <<>>
    /\ mpi_results = <<>>

\* the Assignment2 processes when another program runs
BrokerIdle ==
    /\ fn = ""
    /\ num_processes = 0
    /\ manager = "none"
    /\ shared_job_q = <<>>
    /\ shared_result_q = <<>>
    /\ server_pc = "none"
    /\ sent = 0
    /\ results = <<>>
    /\ client_pc = "none"
    /\ peon_pc = <<>>
    /\ peon_job = <<>>

\* chunks(qualities, 4) in Assignment1 and Assignment3
NumChunks == 4

\* --------------------------------------------- Assignment1: __main__
InitPool ==
    /\ mode = "pool"
    /\ pc = "read"
    /\ n \in 0..MaxCores
    /\ args_chunks = 0
    /\ qualities \in RecordLists
    /\ qual_chunked = <<>>
    /\ phredscores = <<>>
    /\ phredscores_avg = <<>>
    /\ output = <<>>
    /\ BrokerIdle
    /\ MpiIdle

\* qual_chunked = chunks(qualities, 4)
A1Chunk ==
    /\ mode = "pool" /\ pc = "read"
    /\ qual_chunked' = chunks(qualities, NumChunks)
    /\ pc' = "chunked"
    /\ UNCHANGED <<brokerVars, mode, n, args_chunks, qualities, phredscores, phredscores_avg, output>>
    /\ UNCHANGED mpiVars

\* with mp.Pool(args.n) as pool: phredscores = pool.map(calculate_quals, qual_chunked)
\* Pool(processes < 1) raises ValueError
A1PoolMap ==
    /\ mode = "pool" /\ pc = "chunked"
    /\ IF n < 1
       THEN /\ pc' = "ValueError"
            /\ UNCHANGED phredscores
       ELSE /\ phredscores' = [k \in 1..Len(qual_chunked) |-> calculate_quals(qual_chunked[k])]
            /\ pc' = "mapped"
    /\ UNCHANGED <<brokerVars, mode, n, args_chunks, qualities, qual_chunked, phredscores_avg, output>>
    /\ UNCHANGED mpiVars

\* phredscores_avg = [sum(i) / len(qualities) for i in zip(*phredscores)]
\* generate_output(phredscores_avg, CSV)
A1Average ==
    /\ mode = "pool" /\ pc = "mapped"
    /\ LET avg == ZipAverage(phredscores, Len(qualities))
       IN IF avg.raised # ""
          THEN /\ pc' = avg.raised
               /\ UNCHANGED <<phredscores_avg, output>>
          ELSE /\ phredscores_avg' = avg.val
               /\ output' = generate_output(avg.val)
               /\ pc' = "done"
    /\ UNCHANGED <<brokerVars, mode, n, args_chunks, qualities, qual_chunked, phredscores>>
    /\ UNCHANGED mpiVars

NextPool == A1Chunk \/ A1PoolMap \/ A1Average

\* --------------------------------------------- Assignment3: main()
InitA3 ==
    /\ mode \in {"chunk", "combine"}
    /\ pc = "read"
    /\ n = 0
    /\ args_chunks = 0
    /\ qualities \in RecordLists
    /\ qual_chunked = <<>>
    /\ phredscores = <<>>
    /\ phredscores_avg = <<>>
    /\ output = <<>>
    /\ BrokerIdle
    /\ MpiIdle

\* [score / deler for score in scores]
DivideAll(scores, deler) ==
    IF scores # <<>> /\ deler = 0 THEN Raise("ZeroDivisionError")
    ELSE Ok([i \in 1..Len(scores) |-> TrueDiv(scores[i], deler)])

\* if args.chunk: qual_chunked = chunks(qualities, 4)
A3Chunk ==
    /\ mode = "chunk" /\ pc = "read"
    /\ qual_chunked' = chunks(qualities, NumChunks)
    /\ pc' = "chunked"
    /\ UNCHANGED <<brokerVars, mode, n, args_chunks, qualities, phredscores, phredscores_avg, output>>
    /\ UNCHANGED mpiVars

\* with mp.Pool(mp.cpu_count()) as pool: phredscores = pool.map(calculate_quals, qual_chunked)
A3PoolMap ==
    /\ mode = "chunk" /\ pc = "chunked"
    /\ phredscores' = [k \in 1..Len(qual_chunked) |-> calculate_quals(qual_chunked[k])]
    /\ pc' = "mapped"
    /\ UNCHANGED <<brokerVars, mode, n, args_chunks, qualities, qual_chunked, phredscores_avg, output>>
    /\ UNCHANGED mpiVars

\* phredscores_sum = [sum(i) for i in zip(*phredscores)]
\* combined_counts = sum(len(chunk) for chunk in qual_chunked)
\* phredscores_avg = [score / combined_counts for score in phredscores_sum]
A3ChunkAverage ==
    /\ mode = "chunk" /\ pc = "mapped"
    /\ LET z == zip(phredscores)
           phredscores_sum == [i \in 1..Len(z) |-> sum(z[i])]
           counts == [k \in 1..Len(qual_chunked) |-> Len(qual_chunked[k])]
           combined_counts == sum(counts)
           avg == DivideAll(phredscores_sum, combined_counts)
       IN IF avg.raised # ""
          THEN /\ pc' = avg.raised
               /\ UNCHANGED <<phredscores_avg, output>>
          ELSE /\ phredscores_avg' = avg.val
               /\ output' = generate_output(avg.val)
               /\ pc' = "done"
    /\ UNCHANGED <<brokerVars, mode, n, args_chunks, qualities, qual_chunked, phredscores>>
    /\ UNCHANGED mpiVars

\* elif args.combine: phredscores = calculate_quals(qualities)
\* average_phredscores = [score / len(qualities) for score in phredscores]
A3Combine ==
    /\ mode = "combine" /\ pc = "read"
    /\ LET scores == calculate_quals(qualities)
           avg == DivideAll(scores, Len(qualities))
       IN /\ phredscores' = scores
          /\ IF avg.raised # ""
             THEN /\ pc' = avg.raised
                  /\ UNCHANGED <<phredscores_avg, output>>
             ELSE /\ phredscores_avg' = avg.val
                  /\ output' = generate_output(avg.val)
                  /\ pc' = "done"
    /\ UNCHANGED <<brokerVars, mode, n, args_chunks, qualities, qual_chunked>>
    /\ UNCHANGED mpiVars

NextA3 == A3Chunk \/ A3PoolMap \/ A3ChunkAverage \/ A3Combine

\* the in-process programs: Assignment1 and both modes of Assignment3
SpecLocal == (InitPool \/ InitA3) /\ [][NextPool \/ NextA3]_vars

\* ------------------------------------- Assignment2: values on the queues
\* A Python value that travels through a queue carries its type: a str holds
\* the ordinals of its characters, a list its elements.
PyStr(chars) == [type |-> "str", val |-> chars]
PyList(elems) == [type |-> "list", val |-> elems]

\* POISONPILL = "STOP"
POISONPILL == PyStr(<<83, 84, 79, 80>>)
\* ERROR = "OHNO"
ERROR == PyStr(<<79, 72, 78, 79>>)

\* a peon that has not dequeued anything yet
NoJob == [type |-> "none", val |-> <<>>]

\* {'fn': fn, 'arg': d}; unit is the index of d in data (which element the
\* pickled copy is a copy of)
JobEnvelope(f, d, k) == [type |-> "dict", fn |-> f, arg |-> d, unit |-> k]

\* job == POISONPILL
IsPoisonPill(job) == job.type = "str" /\ job.val = POISONPILL.val

\* the reductions runserver may be handed as fn: calculate_quals, one whose
\* call raises NameError (its body names a global that is not defined), and
\* one that names the undefined global inside its loop over the records, so
\* that it raises NameError on a unit that holds a record and returns [] on
\* an empty unit
Reductions == {"calculate_quals", "calculate_quality", "calculate_in_loop"}

\* job['fn'](job['arg'])
CallFn(f, arg) ==
    IF f = "calculate_quals" THEN Ok(PyList(calculate_quals(arg)))
    ELSE IF f = "calculate_in_loop" /\ arg = <<>> THEN Ok(PyList(<<>>))
    ELSE Raise("NameError")

\* {'job': job, 'result': result}, or {'job': job, 'result': ERROR} on NameError
ResultWithoutJob(job) ==
    LET r == CallFn(job.fn, job.arg)
    IN [job |-> JobEnvelope(job.fn, <<>>, 0),
        result |-> IF r.raised = "NameError" THEN ERROR ELSE r.val]
ResultEnvelope_SwallowError(job) ==
    LET r == CallFn(job.fn, job.arg)
    IN [job |-> job, result |-> IF r.raised = "NameError" THEN PyList(<<>>) ELSE r.val]
ResultEnvelope(job) ==
    LET r == CallFn(job.fn, job.arg)
    IN [job |-> job, result |-> IF r.raised = "NameError" THEN ERROR ELSE r.val]

\* runserver(calculate_quals, qual_chunked, len(qualities), CSV)
data == qual_chunked
deler == Len(qualities)

\* ------------------------------------------- Assignment2: __main__
\* the inputs the protocol is run on
BrokerInputs == {<<>>, <<<<33>>>>, <<<<33>>, <<73, 73>>>>, <<<<73, 73>>, <<33>>, <<73>>>>}
\* --chunks, and the number of peons
MaxJobs == 2
MaxWorkers == 2

InitMainA2(inputs, maxChunks) ==
    /\ mode = "broker"
    /\ pc = "read"
    /\ n = 0
    /\ args_chunks \in 0..maxChunks
    /\ qualities \in inputs
    /\ qual_chunked = <<>>
    /\ phredscores = <<>>
    /\ phredscores_avg = <<>>
    /\ output = <<>>
    /\ fn \in Reductions
    /\ num_processes \in 0..MaxWorkers
    /\ manager = "none"
    /\ shared_job_q = <<>>
    /\ shared_result_q = <<>>
    /\ server_pc = "none"
    /\ sent = 0
    /\ results = <<>>
    /\ client_pc = "none"
    /\ peon_pc = <<>>
    /\ peon_job = <<>>
    /\ MpiIdle

InitBroker == InitMainA2(BrokerInputs, MaxJobs)

\* qual_chunked = chunks(qualities, args.chunks)
A2Partition ==
    /\ mode = "broker" /\ pc = "read"
    /\ qual_chunked' = chunks(qualities, args_chunks)
    /\ pc' = "chunked"
    /\ UNCHANGED <<brokerVars, mode, n, args_chunks, qualities, phredscores, phredscores_avg, output>>
    /\ UNCHANGED mpiVars

\* server = mp.Process(target=runserver, ...); server.start()
A2StartServer ==
    /\ mode = "broker" /\ pc = "chunked"
    /\ pc' = "server_started"
    /\ server_pc' = "runserver"
    /\ UNCHANGED <<mode, n, args_chunks, qualities, qual_chunked, phredscores, phredscores_avg, output>>
    /\ UNCHANGED <<fn, num_processes, manager, shared_job_q, shared_result_q,
                   sent, results, client_pc, peon_pc, peon_job>>
    /\ UNCHANGED mpiVars

\* time.sleep(1); client = mp.Process(target=runclient, args=(...)); client.start()
\* runclient: make_client_manager connects (refused unless the manager is up),
\* run_workers starts num_processes peons
A2StartClient ==
    /\ mode = "broker" /\ pc = "server_started"
    /\ pc' = "client_started"
    /\ IF manager = "up"
       THEN /\ client_pc' = "join"
            /\ peon_pc' = [w \in 1..num_processes |-> "poll"]
            /\ peon_job' = [w \in 1..num_processes |-> NoJob]
       ELSE /\ client_pc' = "ConnectionRefusedError"
            /\ UNCHANGED <<peon_pc, peon_job>>
    /\ UNCHANGED <<mode, n, args_chunks, qualities, qual_chunked, phredscores, phredscores_avg, output>>
    /\ UNCHANGED <<fn, num_processes, manager, shared_job_q, shared_result_q,
                   server_pc, sent, results>>
    /\ UNCHANGED mpiVars

\* ------------------------------------------------------- runserver
\* manager = make_server_manager(PORTNUM, AUTHKEY)
ServerMakeManager ==
    /\ server_pc = "runserver"
    /\ manager' = "up"
    /\ server_pc' = "made"
    /\ UNCHANGED <<mainVars, fn, num_processes, shared_job_q, shared_result_q,
                   sent, results, client_pc, peon_pc, peon_job>>
    /\ UNCHANGED mpiVars

\* if not data: return -- the server process exits, and the exit shuts down
\* the manager it started (the manager's finalizer)
ServerCheckData ==
    /\ server_pc = "made"
    /\ IF data = <<>>
       THEN /\ server_pc' = "returned"
            /\ manager' = "down"
       ELSE /\ server_pc' = "sending"
            /\ UNCHANGED manager
    /\ UNCHANGED <<mainVars, fn, num_processes, shared_job_q, shared_result_q,
                   sent, results, client_pc, peon_pc, peon_job>>
    /\ UNCHANGED mpiVars

\* for d in data: shared_job_q.put({'fn': fn, 'arg': d}); then time.sleep(2)
ServerPutJob ==
    /\ server_pc = "sending"
    /\ sent < Len(data)
    /\ shared_job_q' = Append(shared_job_q, JobEnvelope(fn, data[sent + 1], sent + 1))
    /\ sent' = sent + 1
    /\ server_pc' = IF sent + 1 = Len(data) THEN "polling" ELSE "sending"
    /\ UNCHANGED <<mainVars, fn, num_processes, manager, shared_result_q,
                   results, client_pc, peon_pc, peon_job>>
    /\ UNCHANGED mpiVars

\* the test `len(results) == len(data)` that ends the polling loop
GotAllResults_TooEarly(collected) == Len(collected) >= 1
GotAllResults(collected) == Len(collected) = Len(data)

\* result = shared_result_q.get_nowait(); results.append(result);
\* if len(results) == len(data): break  -- except queue.Empty: time.sleep(1)
ServerPoll ==
    /\ server_pc = "polling"
    /\ IF shared_result_q = <<>>
       THEN /\ server_pc' = "backoff"
            /\ UNCHANGED <<shared_result_q, results>>
       ELSE /\ shared_result_q' = Tail(shared_result_q)
            /\ results' = Append(results, Head(shared_result_q))
            /\ server_pc' = IF GotAllResults(results') THEN "collected" ELSE "polling"
    /\ UNCHANGED <<mainVars, fn, num_processes, manager, shared_job_q,
                   sent, client_pc, peon_pc, peon_job>>
    /\ UNCHANGED mpiVars

\* time.sleep(1); continue
ServerWake_LeavesLoop ==
    /\ server_pc = "backoff"
    /\ server_pc' = "collected"
    /\ UNCHANGED <<mainVars, fn, num_processes, manager, shared_job_q, shared_result_q,
                   sent, results, client_pc, peon_pc, peon_job>>
    /\ UNCHANGED mpiVars
ServerWake ==
    /\ server_pc = "backoff"
    /\ server_pc' = "polling"
    /\ UNCHANGED <<mainVars, fn, num_processes, manager, shared_job_q, shared_result_q,
                   sent, results, client_pc, peon_pc, peon_job>>
    /\ UNCHANGED mpiVars

\* shared_job_q.put(POISONPILL); then time.sleep(5)
ServerPoison ==
    /\ server_pc = "collected"
    /\ shared_job_q' = Append(shared_job_q, POISONPILL)
    /\ server_pc' = "grace"
    /\ UNCHANGED <<mainVars, fn, num_processes, manager, shared_result_q,
                   sent, results, client_pc, peon_pc, peon_job>>
    /\ UNCHANGED mpiVars

\* manager.shutdown()
ServerShutdown ==
    /\ server_pc = "grace"
    /\ manager' = "down"
    /\ server_pc' = "merging"
    /\ UNCHANGED <<mainVars, fn, num_processes, shared_job_q, shared_result_q,
                   sent, results, client_pc, peon_pc, peon_job>>
    /\ UNCHANGED mpiVars

\* [sum(i) / deler for i in zip(*phreds)]: a str among phreds is zipped by
\* character, and sum() of a tuple holding a character raises TypeError
BrokerAverage(phreds) ==
    LET lists == [k \in 1..Len(phreds) |-> phreds[k].val]
    IN IF ZipLen(lists) > 0 /\ \E k \in 1..Len(phreds) : phreds[k].type = "str"
       THEN Raise("TypeError")
       ELSE ZipAverage(lists, deler)

\* phreds = [result['result'] for result in results]
\* phredscores_avg = [sum(i) / deler for i in zip(*phreds)]
\* generate_output(phredscores_avg, csvout)
ServerMerge ==
    /\ server_pc = "merging"
    /\ LET phreds == [k \in 1..Len(results) |-> results[k].result]
           avg == BrokerAverage(phreds)
       IN IF avg.raised # ""
          THEN /\ server_pc' = avg.raised
               /\ UNCHANGED <<phredscores_avg, output>>
          ELSE /\ phredscores_avg' = avg.val
               /\ output' = generate_output(avg.val)
               /\ server_pc' = "done"
    /\ UNCHANGED <<mode, pc, n, args_chunks, qualities, qual_chunked, phredscores>>
    /\ UNCHANGED <<fn, num_processes, manager, shared_job_q, shared_result_q,
                   sent, results, client_pc, peon_pc, peon_job>>
    /\ UNCHANGED mpiVars

\* ------------------------------------------------------------ peon
\* what peon does with the job it dequeued
AfterGet_ExitOnJob(job) == "pill"
AfterGet(job) == IF IsPoisonPill(job) THEN "pill" ELSE "job"

\* job = job_q.get_nowait(): a job, the pill, or queue.Empty (print, time.sleep(1));
\* with the manager gone the call raises and the process dies
PeonGet_ExitOnEmpty(w) ==
    /\ peon_pc[w] = "poll"
    /\ IF manager # "up"
       THEN /\ peon_pc' = [peon_pc EXCEPT ![w] = "dead"]
            /\ UNCHANGED <<shared_job_q, peon_job>>
       ELSE IF shared_job_q = <<>>
       THEN /\ peon_pc' = [peon_pc EXCEPT ![w] = "returned"]
            /\ UNCHANGED <<shared_job_q, peon_job>>
       ELSE /\ shared_job_q' = Tail(shared_job_q)
            /\ peon_job' = [peon_job EXCEPT ![w] = Head(shared_job_q)]
            /\ peon_pc' = [peon_pc EXCEPT ![w] = AfterGet(Head(shared_job_q))]
    /\ UNCHANGED <<mainVars, fn, num_processes, manager, shared_result_q,
                   server_pc, sent, results, client_pc>>
    /\ UNCHANGED mpiVars
PeonGet(w) ==
    /\ peon_pc[w] = "poll"
    /\ IF manager # "up"
       THEN /\ peon_pc' = [peon_pc EXCEPT ![w] = "dead"]
            /\ UNCHANGED <<shared_job_q, peon_job>>
       ELSE IF shared_job_q = <<>>
       THEN /\ peon_pc' = [peon_pc EXCEPT ![w] = "sleep"]
            /\ UNCHANGED <<shared_job_q, peon_job>>
       ELSE /\ shared_job_q' = Tail(shared_job_q)
            /\ peon_job' = [peon_job EXCEPT ![w] = Head(shared_job_q)]
            /\ peon_pc' = [peon_pc EXCEPT ![w] = AfterGet(Head(shared_job_q))]
    /\ UNCHANGED <<mainVars, fn, num_processes, manager, shared_result_q,
                   server_pc, sent, results, client_pc>>
    /\ UNCHANGED mpiVars

\* time.sleep(1) is over
PeonWake(w) ==
    /\ peon_pc[w] = "sleep"
    /\ peon_pc' = [peon_pc EXCEPT ![w] = "poll"]
    /\ UNCHANGED <<mainVars, fn, num_processes, manager, shared_job_q, shared_result_q,
                   server_pc, sent, results, client_pc, peon_job>>
    /\ UNCHANGED mpiVars

\* result = job['fn'](job['arg']); result_q.put({'job': job, 'result': result})
\* except NameError: result_q.put({'job': job, 'result': ERROR})
PeonWork(w) ==
    /\ peon_pc[w] = "job"
    /\ IF manager # "up"
       THEN /\ peon_pc' = [peon_pc EXCEPT ![w] = "dead"]
            /\ UNCHANGED shared_result_q
       ELSE /\ shared_result_q' = Append(shared_result_q, ResultEnvelope(peon_job[w]))
            /\ peon_pc' = [peon_pc EXCEPT ![w] = "poll"]
    /\ UNCHANGED <<mainVars, fn, num_processes, manager, shared_job_q,
                   server_pc, sent, results, client_pc, peon_job>>
    /\ UNCHANGED mpiVars

\* job_q.put(POISONPILL); return
PeonPutPill_NoReenqueue(w) ==
    /\ peon_pc[w] = "pill"
    /\ peon_pc' = [peon_pc EXCEPT ![w] = IF manager # "up" THEN "dead" ELSE "returned"]
    /\ UNCHANGED <<mainVars, fn, num_processes, manager, shared_job_q, shared_result_q,
                   server_pc, sent, results, client_pc, peon_job>>
    /\ UNCHANGED mpiVars
PeonPutPill(w) ==
    /\ peon_pc[w] = "pill"
    /\ IF manager # "up"
       THEN /\ peon_pc' = [peon_pc EXCEPT ![w] = "dead"]
            /\ UNCHANGED shared_job_q
       ELSE /\ shared_job_q' = Append(shared_job_q, POISONPILL)
            /\ peon_pc' = [peon_pc EXCEPT ![w] = "returned"]
    /\ UNCHANGED <<mainVars, fn, num_processes, manager, shared_result_q,
                   server_pc, sent, results, client_pc, peon_job>>
    /\ UNCHANGED mpiVars

Peons == 1..Len(peon_pc)

\* for temP in processes: temP.join()
ClientJoin ==
    /\ client_pc = "join"
    /\ \A w \in Peons : peon_pc[w] \in {"returned", "dead", "crashed"}
    /\ client_pc' = "done"
    /\ UNCHANGED <<mainVars, fn, num_processes, manager, shared_job_q, shared_result_q,
                   server_pc, sent, results, peon_pc, peon_job>>
    /\ UNCHANGED mpiVars

NextBroker ==
    \/ A2Partition \/ A2StartServer \/ A2StartClient
    \/ ServerMakeManager \/ ServerCheckData \/ ServerPutJob \/ ServerPoll \/ ServerWake
    \/ ServerPoison \/ ServerShutdown \/ ServerMerge
    \/ \E w \in Peons : PeonGet(w)
    \/ \E w \in Peons : PeonWake(w)
    \/ \E w \in Peons : PeonWork(w)
    \/ \E w \in Peons : PeonPutPill(w)
    \/ ClientJoin

\* The steps of the processes interleave in every order: a sleep delays its
\* own process and promises nothing about the progress of the others.
SpecBroker == InitBroker /\ [][NextBroker]_vars

\* the steps of the three kinds of process: the main program, the server
\* process, and peon w
MainStep == A2Partition \/ A2StartServer \/ A2StartClient

ServerStep ==
    \/ ServerMakeManager \/ ServerCheckData \/ ServerPutJob \/ ServerPoll
    \/ ServerWake \/ ServerPoison \/ ServerShutdown \/ ServerMerge

PeonStep(w) ==
    /\ w \in Peons
    /\ (PeonGet(w) \/ PeonWake(w) \/ PeonWork(w) \/ PeonPutPill(w))

\* every process is an operating-system process of its own: none is starved,
\* and a sleep ends
BrokerFairness ==
    /\ WF_vars(MainStep)
    /\ WF_vars(ServerStep)
    /\ WF_vars(ClientJoin)
    /\ \A w \in 1..MaxWorkers : WF_vars(PeonStep(w))

\* the fair runs start as __main__ starts them, with calculate_quals as the
\* reduction, from one record (units may be empty) and from three records
FairInputs == {<<<<33>>>>, <<<<73, 73>>, <<33>>, <<73>>>>}
InitBrokerFair == InitMainA2(FairInputs, MaxJobs) /\ fn = "calculate_quals"

\* the broker under fair scheduling, no process stopping
SpecBrokerFair == InitBrokerFair /\ [][NextBroker]_vars /\ BrokerFairness

\* the peon process stops between job_q.get_nowait() and result_q.put(...):
\* it is killed, or job['fn'] raises something other than NameError, which
\* neither except clause of peon catches; the job it holds is lost
PeonCrash(w) ==
    /\ peon_pc[w] = "job"
    /\ peon_pc' = [peon_pc EXCEPT ![w] = "crashed"]
    /\ UNCHANGED <<mainVars, fn, num_processes, manager, shared_job_q, shared_result_q,
                   server_pc, sent, results, client_pc, peon_job>>
    /\ UNCHANGED mpiVars

NextBrokerCrash ==
    \/ NextBroker
    \/ \E w \in Peons : PeonCrash(w)

\* the broker with peons that may stop while they hold a job
SpecBrokerCrash == InitBroker /\ [][NextBrokerCrash]_vars

\* the partitioner alone, on every list and every --chunks within the bounds
SpecChunks == InitMainA2(ItemLists, MaxSize) /\ [][A2Partition]_vars

\* ------------------------------------------------ Assignment4: helpers
\* bytes of the input file
MaxFileLen == 5
\* ranks, and input files on the command line
MaxProc == 3
MaxFiles == 2

Bytes == Chars \cup {NL}

\* file.readline() at offset pos: the offset just past the next "\n", or the end
RECURSIVE LineEnd(_, _)
LineEnd(file, pos) ==
    IF pos >= Len(file) THEN Len(file)
    ELSE IF file[pos + 1] = NL THEN pos + 1
    ELSE LineEnd(file, pos + 1)

\* line.strip(): the only whitespace of a line is the "\n" that ends it
strip(line) ==
    IF line # <<>> /\ line[Len(line)] = NL THEN SubSeq(line, 1, Len(line) - 1) ELSE line

\* while file.tell() < stop: quality = file.readline().strip();
\*     if quality: quality_scores.append(quality)
RECURSIVE ReadWhile(_, _, _, _)
ReadWhile(file, tell, stop, scores) ==
    \* (stop never exceeds the file size, so readline always advances)
    IF ~(tell < stop) \/ tell >= Len(file) THEN scores
    ELSE LET quality == strip(SubSeq(file, tell + 1, LineEnd(file, tell)))
         IN ReadWhile(file, LineEnd(file, tell), stop,
                      IF quality # <<>> THEN Append(scores, quality) ELSE scores)

\* file.seek(start), then the loop
read_fastq_chunk(file, start, stop) == ReadWhile(file, start, stop, <<>>)

\* for index, char in enumerate(line): append score and 1 when
\* len(phred_sums) <= index, else add to position index
RECURSIVE PhredOfLine_CountFromZero(_, _, _)
PhredOfLine_CountFromZero(acc, line, index) ==
    IF index > Len(line) THEN acc
    ELSE PhredOfLine_CountFromZero(
            IF Len(acc[1]) < index
            THEN <<Append(acc[1], Score(line[index])), Append(acc[2], 0)>>
            ELSE <<[acc[1] EXCEPT ![index] = @ + Score(line[index])],
                   [acc[2] EXCEPT ![index] = @ + 1]>>,
            line, index + 1)
RECURSIVE PhredOfLine_CountOnce(_, _, _)
PhredOfLine_CountOnce(acc, line, index) ==
    IF index > Len(line) THEN acc
    ELSE PhredOfLine_CountOnce(
            IF Len(acc[1]) < index
            THEN <<Append(acc[1], Score(line[index])), Append(acc[2], 1)>>
            ELSE <<[acc[1] EXCEPT ![index] = @ + Score(line[index])], acc[2]>>,
            line, index + 1)
RECURSIVE PhredOfLine(_, _, _)
PhredOfLine(acc, line, index) ==
    IF index > Len(line) THEN acc
    ELSE PhredOfLine(
            IF Len(acc[1]) < index
            THEN <<Append(acc[1], Score(line[index])), Append(acc[2], 1)>>
            ELSE <<[acc[1] EXCEPT ![index] = @ + Score(line[index])],
                   [acc[2] EXCEPT ![index] = @ + 1]>>,
            line, index + 1)

RECURSIVE PhredFrom(_, _)
PhredFrom(acc, lines) ==
    IF lines = <<>> THEN acc
    ELSE PhredFrom(PhredOfLine(acc, lines[1], 1), Tail(lines))

\* returns (phred_sums, counts)
calculate_phred_scores(lines) == PhredFrom(<<<<>>, <<>>>>, lines)

\* chunk_size = file_size // nproc; start = i * chunk_size;
\* stop = start + chunk_size if i < nproc - 1 else file_size
ChunkOfFile_NoExtension(file_path, file_size, i) ==
    LET chunk_size == file_size \div nproc
        start == i * chunk_size
    IN <<file_path, start, start + chunk_size>>
ChunkOfFile(file_path, file_size, i) ==
    LET chunk_size == file_size \div nproc
        start == i * chunk_size
    IN <<file_path, start, IF i < nproc - 1 THEN start + chunk_size ELSE file_size>>

\* for file_path in args.fastq_files: for i in range(nproc): chunks.append(...)
PartitionPlan ==
    [j \in 1..(nfiles * nproc) |->
        ChunkOfFile(((j - 1) \div nproc) + 1, Len(fastq_file), (j - 1) % nproc)]

\* for i in range(len(res[1][0])): results[file][0][i] += ...; results[file][1][i] += ...
\* (an index past the end of the stored lists raises IndexError)
RECURSIVE AddInto(_, _, _)
AddInto(stored, part, i) ==
    IF i > Len(part[1]) THEN Ok(stored)
    ELSE IF i > Len(stored[1]) THEN Raise("IndexError")
    ELSE AddInto(<<[stored[1] EXCEPT ![i] = @ + part[1][i]],
                   [stored[2] EXCEPT ![i] = @ + part[2][i]]>>, part, i + 1)

\* for res in all_results: results[res[0]] = res[1] if the file is new,
\* else add res[1] into the stored lists
RECURSIVE Rank0Merge(_, _)
Rank0Merge(merged, gathered) ==
    IF gathered = <<>> THEN Ok(merged)
    ELSE LET res == gathered[1]
         IN IF res[1] \notin DOMAIN merged
            THEN Rank0Merge([f \in DOMAIN merged \cup {res[1]} |->
                                IF f = res[1] THEN res[2] ELSE merged[f]],
                            Tail(gathered))
            ELSE LET added == AddInto(merged[res[1]], res[2], 1)
                 IN IF added.raised # "" THEN added
                    ELSE Rank0Merge([merged EXCEPT ![res[1]] = added.val], Tail(gathered))

\* averages = [combined_sums[f][i] / combined_counts[f][i] for i in range(len(combined_sums[f]))]
Averages(sums, counts) ==
    IF \E i \in 1..Len(sums) : counts[i] = 0 THEN Raise("ZeroDivisionError")
    ELSE Ok([i \in 1..Len(sums) |-> TrueDiv(sums[i], counts[i])])

\* ------------------------------------------------- Assignment4: main()
InitMPI ==
    /\ mode = "mpi"
    /\ pc = "none"
    /\ n = 0
    /\ args_chunks = 0
    /\ qualities = <<>>
    /\ qual_chunked = <<>>
    /\ phredscores = <<>>
    /\ phredscores_avg = <<>>
    /\ output = <<>>
    /\ BrokerIdle
    /\ fastq_file \in SeqsOf(Bytes, 0, MaxFileLen)
    /\ nfiles \in 1..MaxFiles
    /\ nproc \in 1..MaxProc
    /\ mpi_pc = "start"
    /\ mpi_chunks = <<>>
    /\ chunk = <<>>
    /\ quality_scores = <<>>
    /\ result = <<>>
    /\ all_results = <<>>
    /\ mpi_results = <<>>

Ranks == 0..(nproc - 1)

\* if rank == 0: chunks = [...]
MpiPlan ==
    /\ mpi_pc = "start"
    /\ mpi_chunks' = PartitionPlan
    /\ mpi_pc' = "planned"
    /\ UNCHANGED <<mainVars, brokerVars, fastq_file, nfiles, nproc, chunk,
                   quality_scores, result, all_results, mpi_results>>

\* chunk = comm.scatter(chunks, root=0): one element per rank, or ValueError
\* when the list does not hold exactly nproc elements
MpiScatter ==
    /\ mpi_pc = "planned"
    /\ IF Len(mpi_chunks) # nproc
       THEN /\ mpi_pc' = "ValueError"
            /\ UNCHANGED <<chunk, quality_scores, result>>
       ELSE /\ mpi_pc' = "scattered"
            /\ chunk' = mpi_chunks
            /\ quality_scores' = [r \in 1..nproc |-> <<>>]
            /\ result' = [r \in 1..nproc |-> <<>>]
    /\ UNCHANGED <<mainVars, brokerVars, fastq_file, nfiles, nproc, mpi_chunks,
                   all_results, mpi_results>>

\* quality_scores = read_fastq_chunk(*chunk)
\* phred_sums, counts = calculate_phred_scores(quality_scores)
\* result = (chunk[0], (phred_sums, counts))           (rank r is index r + 1)
RankReduce(r) ==
    /\ mpi_pc = "scattered"
    /\ result[r + 1] = <<>>
    /\ LET lines == read_fastq_chunk(fastq_file, chunk[r + 1][2], chunk[r + 1][3])
       IN /\ quality_scores' = [quality_scores EXCEPT ![r + 1] = lines]
          /\ result' = [result EXCEPT ![r + 1] = <<chunk[r + 1][1], calculate_phred_scores(lines)>>]
    /\ UNCHANGED <<mainVars, brokerVars, fastq_file, nfiles, nproc, mpi_pc, mpi_chunks,
                   chunk, all_results, mpi_results>>

\* all_results = comm.gather(result, root=0): every rank's result, in rank order
MpiGather ==
    /\ mpi_pc = "scattered"
    /\ \A r \in Ranks : result[r + 1] # <<>>
    /\ all_results' = result
    /\ mpi_pc' = "gathered"
    /\ UNCHANGED <<mainVars, brokerVars, fastq_file, nfiles, nproc, mpi_chunks, chunk,
                   quality_scores, result, mpi_results>>

\* if rank == 0: results = {}; for res in all_results: ...
MpiMerge ==
    /\ mpi_pc = "gathered"
    /\ LET merged == Rank0Merge(<<>>, all_results)
       IN IF merged.raised # ""
          THEN /\ mpi_pc' = merged.raised
               /\ UNCHANGED mpi_results
          ELSE /\ mpi_results' = merged.val
               /\ mpi_pc' = "merged"
    /\ UNCHANGED <<mainVars, brokerVars, fastq_file, nfiles, nproc, mpi_chunks, chunk,
                   quality_scores, result, all_results>>

\* process_results(results, args.output_file, args.fastq_files): the rows
\* "i,score" of the (one) file
MpiProcessResults ==
    /\ mpi_pc = "merged"
    /\ LET avg == Averages(mpi_results[1][1], mpi_results[1][2])
       IN IF avg.raised # ""
          THEN /\ mpi_pc' = avg.raised
               /\ UNCHANGED <<phredscores_avg, output>>
          ELSE /\ phredscores_avg' = avg.val
               /\ output' = generate_output(avg.val)
               /\ mpi_pc' = "done"
    /\ UNCHANGED <<mode, pc, n, args_chunks, qualities, qual_chunked, phredscores>>
    /\ UNCHANGED <<brokerVars, fastq_file, nfiles, nproc, mpi_chunks, chunk,
                   quality_scores, result, all_results, mpi_results>>

NextMPI ==
    \/ MpiPlan
    \/ MpiScatter
    \/ \E r \in Ranks : RankReduce(r)
    \/ MpiGather
    \/ MpiMerge
    \/ MpiProcessResults

SpecMPI == InitMPI /\ [][NextMPI]_vars

\* ------------------------------------------------- the four programs
\* a run is a run of one of the four programs that compute the means
SpecAll ==
    /\ InitPool \/ InitA3 \/ InitBroker \/ InitMPI
    /\ [][NextPool \/ NextA3 \/ NextBroker \/ NextMPI]_vars

\* ------------------------------------------- what the claims speak of
\* the lists of a list of lists, one after the other
RECURSIVE Concat(_)
Concat(lists) == IF lists = <<>> THEN <<>> ELSE lists[1] \o Concat(Tail(lists))

\* the longest record of a list
RECURSIVE MaxRecLen(_)
MaxRecLen(recs) == IF recs = <<>> THEN 0 ELSE Max(Len(recs[1]), MaxRecLen(Tail(recs)))

\* the records of a list that have a position i (1-based)
Having(recs, i) == {k \in 1..Len(recs) : Len(recs[k]) >= i}

RECURSIVE SumOver(_, _, _)
SumOver(recs, ks, i) ==
    IF ks = {} THEN 0
    ELSE LET k == CHOOSE x \in ks : TRUE
         IN Score(recs[k][i]) + SumOver(recs, ks \ {k}, i)

\* sum of the scores at position i, and the number of records that have it
PosSum(recs, i) == SumOver(recs, Having(recs, i), i)
PosCount(recs, i) == Cardinality(Having(recs, i))

\* the mean of every position, each over the records that have the position
PerPositionMeans(recs) ==
    [i \in 1..MaxRecLen(recs) |-> TrueDiv(PosSum(recs, i), PosCount(recs, i))]

\* C2: for records of any lengths, the mean emitted for position i is the sum
\* of the scores at i divided by the number of records that have a position i
\* (["!!", "III"] gives 20.0, 20.0, 40.0). Violated by Assignment1 and by both
\* modes of Assignment3.
C2_MeanPerPosition ==
    pc = "done" => output = generate_output(PerPositionMeans(qualities))

\* C1: for every list of records and every split of it into work units,
\* reducing each unit with calculate_phred_scores and merging the partial
\* results at rank 0 in gather order yields exactly the sums and counts of one
\* calculate_phred_scores call over all the records, and the merge completes
\* without error whatever the order of the units.
C1_MergeEqualsSinglePass ==
    mpi_pc \in {"merged", "IndexError"} =>
        /\ mpi_pc = "merged"
        /\ mpi_results[1] = calculate_phred_scores(Concat(quality_scores))

\* C3: merging partial results of unequal length yields an aggregate whose
\* length is the maximum of the partial lengths. Stated of the zip fold of
\* Assignment1 and of the chunk mode of Assignment3.
C3_MergedLengthIsLongest ==
    (pc = "done" /\ mode \in {"pool", "chunk"}) =>
        Len(phredscores_avg) = MaxRecLen(phredscores)

\* the orders in which nproc results can be gathered
Permutations(k) == {p \in [1..k -> 1..k] : \A i, j \in 1..k : p[i] = p[j] => i = j}

SameOutcome(a, b) == a.raised = b.raised /\ (a.raised = "" => a.val = b.val)

\* C4: merging the same partial results in any permutation of their arrival
\* order yields the same aggregate (same outcome, same sums, same counts).
\* Stated of the rank-0 merge over the gathered results.
C4_MergeOrderIndependent ==
    mpi_pc = "gathered" =>
        \A p \in Permutations(nproc) :
            SameOutcome(Rank0Merge(<<>>, [i \in 1..nproc |-> all_results[p[i]]]),
                        Rank0Merge(<<>>, all_results))

\* floor(a / b) for a >= 0, b > 0
Floor(a, b) == a \div b

\* C5: for every list of length L >= 0 and every n >= 1, chunks(list, n) returns
\* exactly n slices whose concatenation, in order, is the list itself (nothing
\* duplicated, nothing omitted); slice i is the index range
\* [floor(i*L/n), floor((i+1)*L/n)).
C5_ChunksCoverExactly ==
    (pc = "chunked" /\ args_chunks >= 1) =>
        /\ Len(qual_chunked) = args_chunks
        /\ Concat(qual_chunked) = qualities
        /\ \A i \in 0..(args_chunks - 1) :
              qual_chunked[i + 1] =
                  [j \in 1..(Floor((i + 1) * Len(qualities), args_chunks)
                             - Floor(i * Len(qualities), args_chunks)) |->
                      qualities[Floor(i * Len(qualities), args_chunks) + j]]

\* a list of 5 split into 3 slices of sizes 1, 2, 2
C5_Witness ==
    /\ pc = "chunked" /\ args_chunks = 3 /\ Len(qualities) = 5
    /\ Len(qual_chunked[1]) = 1 /\ Len(qual_chunked[2]) = 2 /\ Len(qual_chunked[3]) = 2

\* ------------------------------------------------ the broker's claims
\* how often unit k is in a sequence of job envelopes / of result envelopes
JobCount(q, k) == Cardinality({i \in 1..Len(q) : q[i].type = "dict" /\ q[i].unit = k})
ResultCount(q, k) == Cardinality({i \in 1..Len(q) : q[i].job.unit = k})
HeldCount(k) == Cardinality({w \in Peons : peon_pc[w] = "job" /\ peon_job[w].unit = k})

\* the sentinels in the system: on the job queue, or in the hands of a peon
\* between its get_nowait and its put
SentinelCount ==
    Cardinality({i \in 1..Len(shared_job_q) : IsPoisonPill(shared_job_q[i])})
        + Cardinality({w \in Peons : peon_pc[w] = "pill"})

\* the server has left its polling loop
LeftPolling == server_pc \in {"collected", "grace", "merging", "done", "TypeError", "ZeroDivisionError"}

\* C6: with w >= 1 peons and at least one work unit, every peon dequeues the
\* sentinel and returns before the server shuts the manager down. Stated on
\* the state the shutdown leaves: the manager is down only when every peon
\* has returned.
C6_AllReturnedBeforeShutdown ==
    (manager = "down" /\ Peons # {} /\ data # <<>>) =>
        \A w \in Peons : peon_pc[w] = "returned"

\* C7: a peon returns only by dequeuing the sentinel, and the server enqueues
\* the sentinel once, after it has collected len(data) results; so whenever
\* some peon has returned, the job queue holds no real job, no peon holds
\* one, and every unit's result has been collected.
C7_NoExitBeforeWorkIsDone ==
    /\ \A w \in Peons :
          peon_pc[w] \in {"pill", "returned"} => IsPoisonPill(peon_job[w])
    /\ SentinelCount <= 1
    /\ SentinelCount = 1 => LeftPolling /\ server_pc # "collected"
    /\ (\E w \in Peons : peon_pc[w] = "returned") =>
          /\ \A i \in 1..Len(shared_job_q) : IsPoisonPill(shared_job_q[i])
          /\ \A w \in Peons : peon_pc[w] # "job"
          /\ Len(results) = Len(data)
          /\ \A k \in 1..Len(data) : ResultCount(results, k) = 1

\* two units, and a peon has returned
C7_Witness ==
    /\ Len(data) = 2
    /\ \E w \in Peons : peon_pc[w] = "returned"
    /\ \E w \in Peons : peon_pc[w] = "sleep"

\* C8: every job envelope the server enqueued is dequeued by exactly one peon
\* and produces exactly one result envelope: at any moment a unit that was
\* sent is in exactly one place (job queue, one peon's hands, result queue,
\* results); when the server has left its polling loop it holds exactly
\* len(data) results, one for each unit.
C8_EachUnitExactlyOnce ==
    /\ \A k \in 1..Len(data) :
          JobCount(shared_job_q, k) + HeldCount(k)
            + ResultCount(shared_result_q, k) + ResultCount(results, k)
          = IF k <= sent THEN 1 ELSE 0
    /\ LeftPolling =>
          /\ Len(results) = Len(data)
          /\ \A k \in 1..Len(data) : ResultCount(results, k) = 1

\* two peons worked concurrently on two units and the server collected both
C8_Witness ==
    /\ LeftPolling /\ Len(data) = 2 /\ Len(peon_pc) = 2
    /\ \A w \in Peons : peon_job[w].type = "dict"
    /\ peon_job[1].unit # peon_job[2].unit

\* what the reduction a job names makes of unit k
ExpectedResult(k) ==
    IF fn = "calculate_quals" THEN PyList(calculate_quals(data[k]))
    ELSE IF fn = "calculate_in_loop" /\ data[k] = <<>> THEN PyList(<<>>)
    ELSE ERROR

\* the collected envelopes put in the order of their units
RECURSIVE ByUnit(_, _)
ByUnit(envs, k) ==
    IF k > Len(envs) THEN <<>>
    ELSE <<envs[CHOOSE i \in 1..Len(envs) : envs[i].job.unit = k].result>>
            \o ByUnit(envs, k + 1)

C10_NameErrorYieldsMarker ==
    [][\A w \in Peons :
          (/\ peon_pc[w] = "job" /\ peon_pc'[w] # "job"
           /\ CallFn(peon_job[w].fn, peon_job[w].arg).raised = "NameError") =>
              /\ shared_result_q' =
                    Append(shared_result_q, [job |-> peon_job[w], result |-> ERROR])
              /\ peon_pc'[w] = "poll"
              /\ results' = results]_vars

\* one peon met the NameError twice and has gone on to the sentinel
C10_Witness ==
    /\ fn # "calculate_quals"
    /\ Len(peon_pc) = 1 /\ peon_pc[1] = "returned"
    /\ Len(results) = 2
    /\ \A i \in 1..2 : results[i].result = ERROR

\* result == ERROR
IsErrorMarker(res) == res.type = "str" /\ res.val = ERROR.val

\* C11: a collected envelope that carries the error marker counts as a
\* completed result, but the marker is not folded into the aggregate: the
\* failure of its unit is surfaced as an error outcome, so a run that
\* collected a marker never completes normally with an averaged output.
C11_MarkerSurfacedNotFolded ==
    (\E i \in 1..Len(results) : IsErrorMarker(results[i].result)) =>
        server_pc # "done"

\* C12: for an input with zero records every variant ends in an explicit
\* merger failure and emits no (position, value) pairs; none completes
\* normally with an empty output.
C12_EmptyInputFailsExplicitly ==
    (mode \in {"pool", "chunk", "combine"} /\ qualities = <<>>) => pc # "done"

\* C13: for every rank count and every number of input files the partition
\* plan of rank 0 holds exactly nproc units, so the scatter hands one unit to
\* each rank (it does not fail) and the gather returns nproc partial results.
C13_PlanHasOneUnitPerRank ==
    /\ mpi_pc # "start" => Len(mpi_chunks) = nproc
    /\ mpi_pc # "ValueError"
    /\ mpi_pc \in {"gathered", "merged", "done"} => Len(all_results) = nproc

\* the non-empty lines of a file, in order (cur is the line being read)
RECURSIVE SplitFrom(_, _, _)
SplitFrom(file, i, cur) ==
    LET done == IF cur = <<>> THEN <<>> ELSE <<cur>>
    IN IF i > Len(file) THEN done
       ELSE IF file[i] = NL THEN done \o SplitFrom(file, i + 1, <<>>)
       ELSE SplitFrom(file, i + 1, Append(cur, file[i]))

LinesOfFile(file) == SplitFrom(file, 1, <<>>)

\* C14: the records read_fastq_chunk returns over all byte-range units of a
\* file, concatenated in unit order, are the lines of the file, each exactly
\* once: no line read by two units, none skipped, no fragment of a line.
C14_UnitsReadEveryLineOnce ==
    (mpi_pc = "gathered" /\ nfiles = 1) =>
        Concat(quality_scores) = LinesOfFile(fastq_file)

\* the unit of rank i for file f in the plan of rank 0
PlannedUnit(f, i) == mpi_chunks[(f - 1) * nproc + i + 1]

\* C15: for a file of S bytes and n ranks the byte ranges built by rank 0 are
\* [i*floor(S/n), (i+1)*floor(S/n)) for i < n-1 and [(n-1)*floor(S/n), S) for
\* the last unit; they are pairwise disjoint and contiguous and their union
\* is [0, S): every byte of the file lies in exactly one range.
C15_ByteRangesTileTheFile ==
    mpi_pc # "start" =>
        LET S == Len(fastq_file)
            q == Floor(S, nproc)
        IN \A f \in 1..nfiles :
              /\ \A i \in 0..(nproc - 1) :
                    /\ PlannedUnit(f, i)[1] = f
                    /\ PlannedUnit(f, i)[2] = i * q
                    /\ PlannedUnit(f, i)[3] = IF i < nproc - 1 THEN (i + 1) * q ELSE S
                    /\ PlannedUnit(f, i)[2] <= PlannedUnit(f, i)[3]
                    /\ i < nproc - 1 => PlannedUnit(f, i)[3] = PlannedUnit(f, i + 1)[2]
              /\ \A b \in 0..(S - 1) :
                    Cardinality({i \in 0..(nproc - 1) :
                        PlannedUnit(f, i)[2] <= b /\ b < PlannedUnit(f, i)[3]}) = 1

\* 5 bytes on 2 ranks: the last unit takes the remainder
C15_Witness ==
    /\ mpi_pc = "planned" /\ nproc = 2 /\ Len(fastq_file) = 5
    /\ mpi_chunks[1] = <<1, 0, 2>> /\ mpi_chunks[2] = <<1, 2, 5>>

\* C16: for every work unit calculate_phred_scores returns sums and counts of
\* one length, the length of the longest record of that unit (0 for an empty
\* unit); counts[i] is the number of records of the unit longer than i and
\* sums[i] the sum of ord(char) - 33 over their characters at position i.
C16_SumsAndCountsPerUnit ==
    \A r \in 1..Len(result) :
        result[r] # <<>> =>
            LET recs == quality_scores[r]
                sums == result[r][2][1]
                counts == result[r][2][2]
            IN /\ Len(sums) = MaxRecLen(recs)
               /\ Len(counts) = MaxRecLen(recs)
               /\ \A i \in 1..MaxRecLen(recs) :
                     /\ counts[i] = PosCount(recs, i)
                     /\ sums[i] = PosSum(recs, i)

\* a unit of two records, the second the longer one, with non-zero scores
C16_Witness ==
    \E r \in 1..Len(result) :
        /\ result[r] # <<>>
        /\ Len(quality_scores[r]) = 2
        /\ Len(quality_scores[r][1]) < Len(quality_scores[r][2])
        /\ result[r][2][2] = <<2, 1>>
        /\ result[r][2][1] = <<80, 40>>

\* C17, as claimed: the last unit of chunks(list, n) absorbs the remainder of
\* the integer division: every unit but the last holds exactly floor(L/n)
\* records, the last holds L - (n-1)*floor(L/n), and units are empty only
\* when n > L.
C17_LastUnitAbsorbsRemainder ==
    (pc = "chunked" /\ args_chunks >= 1) =>
        LET L == Len(qualities)
            nn == args_chunks
        IN /\ \A i \in 1..(nn - 1) : Len(qual_chunked[i]) = Floor(L, nn)
           /\ Len(qual_chunked[nn]) = L - (nn - 1) * Floor(L, nn)
           /\ (\E i \in 1..nn : qual_chunked[i] = <<>>) => nn > L

\* C17, amended: the remainder of the integer division is spread over the
\* units, one record each: every unit holds floor(L/n) or floor(L/n) + 1
\* records, exactly L mod n units hold floor(L/n) + 1, the last unit holds
\* ceil(L/n), and units are empty only when n > L.
C17_RemainderSpreadOverUnits ==
    (pc = "chunked" /\ args_chunks >= 1) =>
        LET L == Len(qualities)
            nn == args_chunks
            q == Floor(L, nn)
        IN /\ \A i \in 1..nn : Len(qual_chunked[i]) \in {q, q + 1}
           /\ Cardinality({i \in 1..nn : Len(qual_chunked[i]) = q + 1}) = L % nn
           /\ Len(qual_chunked[nn]) = IF L % nn = 0 THEN q ELSE q + 1
           /\ (\E i \in 1..nn : qual_chunked[i] = <<>>) => nn > L

\* 2 records in 4 units: the two records go to the second and the last unit
C17_Witness ==
    /\ pc = "chunked" /\ args_chunks = 4 /\ Len(qualities) = 2
    /\ Len(qual_chunked[1]) = 0 /\ Len(qual_chunked[2]) = 1
    /\ Len(qual_chunked[3]) = 0 /\ Len(qual_chunked[4]) = 1

\* C18: a configuration with zero partitions (or zero workers) ends in an
\* explicit error before any work unit is dispatched, never in a silent
\* return. Stated of the broker started with --chunks 0: runserver never
\* returns without an error.
C18_ZeroPartitionsFailFast ==
    (mode = "broker" /\ args_chunks = 0) => server_pc # "returned"

\* C19: once a peon has stopped after dequeuing a job and before putting its
\* result, the server never collects len(data) results: it stays in its
\* polling loop, no sentinel is ever enqueued, the manager is never shut
\* down, and no other peon ever exits.
C19_LostJobMakesServerPollForever ==
    (\E w \in Peons : peon_pc[w] = "crashed") =>
        /\ Len(results) < Len(data)
        /\ server_pc \in {"sending", "polling", "backoff"}
        /\ SentinelCount = 0
        /\ manager = "up"
        /\ \A w \in Peons : peon_pc[w] \notin {"pill", "returned", "dead"}

\* two units: one is lost with its peon, the result of the other is
\* collected, and the server and the other peon poll empty queues
C19_Witness ==
    /\ Len(data) = 2 /\ Len(peon_pc) = 2
    /\ peon_pc[1] = "crashed" /\ peon_pc[2] = "sleep"
    /\ shared_job_q = <<>> /\ shared_result_q = <<>>
    /\ Len(results) = 1
    /\ server_pc = "backoff"

\* C20: with at least one unit and at least one peon, under fair scheduling
\* and with no peon stopping, the server eventually collects len(data)
\* results, leaves its polling loop, enqueues the sentinel and shuts the
\* manager down: the server and the peons never poll empty queues forever.
C20_ServerReachesShutdown ==
    (Peons # {} /\ data # <<>>) ~>
        (/\ Len(results) = Len(data)
         /\ LeftPolling
         /\ manager = "down")

\* two units, two peons, and the server has shut the manager down
C20_Witness ==
    /\ Len(data) = 2 /\ Len(peon_pc) = 2
    /\ Len(results) = 2
    /\ server_pc = "merging" /\ manager = "down"

\* the sentinels on the job queue
QueuedSentinels ==
    Cardinality({i \in 1..Len(shared_job_q) : IsPoisonPill(shared_job_q[i])})

\* C21: from the moment the server enqueues the sentinel until the manager is
\* shut down, exactly one sentinel exists: on the job queue, or held by one
\* peon between its dequeue and its re-enqueue; the job queue never holds two
\* sentinels, and once every peon has exited one sentinel is on the queue.
C21_ExactlyOneSentinel ==
    /\ QueuedSentinels <= 1
    /\ server_pc = "grace" =>
          /\ QueuedSentinels + Cardinality({w \in Peons : peon_pc[w] = "pill"}) = 1
          /\ (\A w \in Peons : peon_pc[w] = "returned") => QueuedSentinels = 1

\* before the shutdown one peon has returned and the other holds the sentinel
C21_Witness ==
    /\ server_pc = "grace" /\ Len(peon_pc) = 2
    /\ peon_pc[1] = "returned" /\ peon_pc[2] = "pill"
    /\ QueuedSentinels = 0

\* C22: given an empty list of work units, runserver still enqueues the
\* sentinel and shuts the manager down in order, so that connected peons see
\* the sentinel and exit. Stated on the states in which runserver has ended
\* on an empty list: the sentinel was enqueued, and no peon was left to die
\* on the vanished manager.
C22_EmptyDataStillSendsSentinel ==
    (mode = "broker" /\ data = <<>> /\ server_pc \notin {"none", "runserver", "made"}) =>
        /\ QueuedSentinels = 1
        /\ \A w \in Peons : peon_pc[w] # "dead"

\* the counts of a (sums, counts) pair cover every position and are positive
CountsPositive(pair) ==
    /\ Len(pair[2]) = Len(pair[1])
    /\ \A i \in 1..Len(pair[1]) : pair[2][i] >= 1

\* the positions the server's fold divides: the tuples of zip(*phreds), none
\* when a result is the error marker, whose sum(i) raises before the division
DividedPositions ==
    LET phreds == [k \in 1..Len(results) |-> results[k].result]
    IN IF \E k \in 1..Len(phreds) : IsErrorMarker(phreds[k]) THEN 0
       ELSE ZipLen([k \in 1..Len(phreds) |-> phreds[k].val])

\* C23: no run ever divides by zero when computing the means. In the
\* rank-based variant every position of a partial or merged result has
\* counts[i] >= 1; in the pool and broker variants the divisor, the total
\* record count, is 0 only when there is no position to divide.
C23_NeverDividesByZero ==
    /\ pc # "ZeroDivisionError"
    /\ server_pc # "ZeroDivisionError"
    /\ mpi_pc # "ZeroDivisionError"
    /\ \A r \in 1..Len(result) : result[r] # <<>> => CountsPositive(result[r][2])
    /\ \A f \in DOMAIN mpi_results : CountsPositive(mpi_results[f])
    /\ (mode = "pool" /\ pc = "mapped" /\ Len(qualities) = 0) => ZipLen(phredscores) = 0
    /\ (mode = "chunk" /\ pc = "mapped" /\ Len(Concat(qual_chunked)) = 0) =>
           ZipLen(phredscores) = 0
    /\ (mode = "combine" /\ Len(qualities) = 0) => calculate_quals(qualities) = <<>>
    /\ (server_pc = "merging" /\ deler = 0) => DividedPositions = 0

\* rank 0 has averaged a merged result in which two units counted position 0
C23_Witness ==
    /\ mpi_pc = "done"
    /\ output # <<>>
    /\ mpi_results[1][2][1] >= 2
    /\ \E r \in 1..Len(result) : \E q \in 1..Len(result) :
          /\ r # q
          /\ result[r][2][2] # <<>> /\ result[q][2][2] # <<>>

\* the rows the combine mode of Assignment3 emits for a list of records
CombineOutput(records) ==
    generate_output(DivideAll(calculate_quals(records), Len(records)).val)

\* C24: for every list of records the chunk mode of Assignment3 (partition
\* into 4 chunks, reduce each, fold the partial sums, divide by the combined
\* record count) emits the same (position, mean) pairs as its combine mode
\* (one reduction over all records, divided by the record count).
C24_ChunkModeEqualsCombineMode ==
    (mode = "chunk" /\ pc = "done") => output = CombineOutput(qualities)


====
